---- MODULE Spec2Model ----
(***************************************************************************)
(* Trace recorder (app/callbacks.py), multi-agent orchestrator             *)
(* (app/multi_agent.py), the query entry points and the liveness probe     *)
(* (app/main.py) and the keyword validators (app/evaluation_dataset.py)    *)
(* of the ai-observability service, as a state machine.                    *)
(*                                                                         *)
(* Python values are tagged records: None, str (a sequence of tokens),     *)
(* datetime, timedelta, dict.  A str is a sequence of tokens; the test     *)
(* `"Error" in s` is membership of the token "Error".                      *)
(***************************************************************************)
EXTENDS Integers, Sequences, FiniteSets, TLC

VARIABLES
    es_client,      \* callbacks.es_client: TRUE = client object, FALSE = None
    store,          \* the agent_traces index: set of [id, source]
    index_calls,    \* every es_client.index(...) call made, in order
    flush_calls,    \* per handler: calls of _log_trace / _log_to_elasticsearch
    handlers,       \* TraceLoggerCallbackHandler objects, by role
    events,         \* per handler: the action/observation events it received
    raised,         \* exception raised by the last handler method call
    last_call,      \* name of the last handler method called
    now,            \* wall clock: advances with every step of the request
    next_uuid,      \* uuid4 source
    pc,             \* position of the request in its entry point
    cur,            \* handler of the executor that is running
    phase,          \* position of the running executor's loop
    iterations,     \* loop iterations of the running executor
    pending,        \* the output / exception the running executor ends with
    question,       \* request.question
    all_steps,      \* process_query local
    stage_out,      \* process_query locals sql_result, analytics_result, report_result
    invocations,    \* executor.invoke calls made, in order: [stage, input]
    pq_outcome,     \* how process_query ended
    response,       \* payload returned by the entry point
    calls,          \* direct method calls made on a handler under test
    other,          \* the request a second worker is serving, while it waits
    switches,       \* how often the two requests have taken turns
    health,         \* the last answer of the liveness probe
    validation,     \* one call of a keyword validator: its arguments and result
    recoveries      \* parsing failures the stage executors have recovered from

vars == <<es_client, store, index_calls, flush_calls, handlers, events, raised,
          last_call, now, next_uuid, pc, cur, phase, iterations, pending,
          question, all_steps, stage_out, invocations, pq_outcome, response,
          calls, other, switches, health, validation, recoveries>>

-----------------------------------------------------------------------------
(* Bounds of the model *)

MaxToolCalls == 2
MaxCalls == 3
MaxSwitches == 2
MaxTextLen == 3
MaxKeywords == 2
MaxRecoveries == 1

(* Program constants *)

max_iterations_single == 5
max_iterations_sql == 15
max_iterations_analytics == 5
max_iterations_reporting == 5

-----------------------------------------------------------------------------
(* Python values *)

None == [py |-> "None"]
Absent == [py |-> "absent"]
TypeError == [py |-> "TypeError"]
Str(s) == [py |-> "str", s |-> s]
Dict(items) == [py |-> "dict", items |-> items]

\* bool(v) for an Optional[str]
Truthy(v) == v.py = "str" /\ v.s # <<>>

\* `tok in v` for a str v
Contains(tok, v) == \E i \in 1..Len(v.s) : v.s[i] = tok

\* `sub in text` for two strs given as sequences of tokens or characters
Includes(text, sub) ==
    \E i \in 1..(Len(text) + 1) :
        /\ i + Len(sub) - 1 <= Len(text)
        /\ SubSeq(text, i, i + Len(sub) - 1) = sub

\* d.get(key, default)
DictGet(d, key, default) ==
    IF key \in DOMAIN d.items THEN d.items[key] ELSE default

\* The characters str.strip() removes: those for which str.isspace() holds.
\* A character outside printable ASCII and the escapes \t \n \f \r is written as
\* the token "U+hhhh" of its code point, here and in every str of the model.
Whitespace == {" ", "\t", "\n", "\r", "\f",
               "U+000B", "U+001C", "U+001D", "U+001E", "U+001F",
               "U+0085", "U+00A0", "U+1680", "U+2000", "U+2001", "U+2002",
               "U+2003", "U+2004", "U+2005", "U+2006", "U+2007", "U+2008",
               "U+2009", "U+200A", "U+2028", "U+2029", "U+202F", "U+205F",
               "U+3000"}

RECURSIVE LStrip(_)
LStrip(s) == IF s # <<>> /\ Head(s) \in Whitespace THEN LStrip(Tail(s)) ELSE s

RECURSIVE RStrip(_)
RStrip(s) ==
    IF s # <<>> /\ s[Len(s)] \in Whitespace
    THEN RStrip(SubSeq(s, 1, Len(s) - 1)) ELSE s

\* str.strip()
Strip(s) == RStrip(LStrip(s))

\* datetime.datetime.utcnow(): naive
UtcNow(t) == [py |-> "datetime", t |-> t, tz |-> "naive"]

\* datetime.datetime.now(datetime.timezone.utc): aware
NowUtc(t) == [py |-> "datetime", t |-> t, tz |-> "utc"]

\* datetime.isoformat(): a str; an aware datetime prints its offset
IsoFormat(d) == [py |-> "str", iso |-> d.t, offset |-> d.tz]

\* s.replace('Z', '+00:00') on an ISO string: a 'Z' suffix becomes the UTC offset
ReplaceZ(s) == IF s.offset = "Z" THEN [s EXCEPT !.offset = "utc"] ELSE s

\* datetime.datetime.fromisoformat(s)
FromIsoFormat(s) == [py |-> "datetime", t |-> s.iso, tz |-> s.offset]

\* a - b for a datetime a: TypeError unless b is a datetime of the same awareness
DtSub(a, b) ==
    IF a.py = "datetime" /\ b.py = "datetime" /\ a.tz = b.tz
    THEN [py |-> "timedelta", seconds |-> a.t - b.t]
    ELSE TypeError

\* str(error)
ErrStr(error) == Str(error.msg)

-----------------------------------------------------------------------------
(* The trace store: es_client.index(index=INDEX_NAME, document=..., id=...) *)

NoId == <<"no id">>

\* index with an id replaces the document of that id; without one the store
\* generates a fresh id
EsIndex(st, id, document) ==
    IF id = NoId
    THEN st \cup {[id |-> <<"auto", Cardinality(st)>>, source |-> document]}
    ELSE {e \in st : e.id # id} \cup {[id |-> id, source |-> document]}

RECURSIVE StoreAfter(_, _)
StoreAfter(st, writes) ==
    IF writes = <<>> THEN st
    ELSE LET w == Head(writes)
         IN StoreAfter(IF w.ok THEN EsIndex(st, w.id, w.document) ELSE st,
                       Tail(writes))

-----------------------------------------------------------------------------
(* TraceLoggerCallbackHandler.  Every method is an operator from the       *)
(* handler object (and the call's arguments) to the outcome of the call:   *)
(* the object afterwards, the exception raised ("none" if it returns), the *)
(* flush entry points entered and the es_client.index calls made.          *)
(* t is the clock reading, ok whether the store accepts a write.           *)

Out(h, exc, flushes, writes) ==
    [h |-> h, raised |-> exc, flushes |-> flushes, writes |-> writes]

\* __init__ with a run identifier that is not drawn afresh
NewHandler_constant_id(uuid, t) ==
    LET start == IsoFormat(UtcNow(t))
    IN [run_id |-> <<"uuid", 0>>,
        steps |-> <<>>,
        final_answer |-> None,
        start_time |-> start,
        agent_type |-> "single_agent",
        original_question |-> <<>>,
        trace_data |-> [run_id |-> <<"uuid", 0>>,
                        steps |-> <<>>,
                        final_output |-> None,
                        status |-> "started",
                        timestamp |-> start,
                        duration_ms |-> Absent,
                        error |-> Absent]]

\* __init__
NewHandler(uuid, t) ==
    LET start == IsoFormat(UtcNow(t))
    IN [run_id |-> <<"uuid", uuid>>,
        steps |-> <<>>,
        final_answer |-> None,
        start_time |-> start,
        agent_type |-> "single_agent",
        original_question |-> <<>>,
        trace_data |-> [run_id |-> <<"uuid", uuid>>,
                        steps |-> <<>>,
                        final_output |-> None,
                        status |-> "started",
                        timestamp |-> start,
                        duration_ms |-> Absent,
                        error |-> Absent]]

_log_to_elasticsearch(h, ok) ==
    IF es_client
    THEN Out(h, "none", <<"_log_to_elasticsearch">>,
             <<[entry |-> "_log_to_elasticsearch", id |-> h.run_id,
                document |-> h.trace_data, ok |-> ok]>>)
    ELSE Out(h, "none", <<"_log_to_elasticsearch">>, <<>>)

\* end_time - start_time_dt of _log_trace
TraceDelta(h, t) == DtSub(UtcNow(t), FromIsoFormat(ReplaceZ(h.start_time)))

\* the trace_document of _log_trace
TraceDocument(h, t) ==
    [run_id |-> h.run_id,
     question |-> h.original_question,
     agent_type |-> h.agent_type,
     final_answer |-> h.final_answer,
     status |-> IF Truthy(h.final_answer) /\ ~Contains("Error", h.final_answer)
                THEN "completed" ELSE "error",
     steps |-> h.steps,
     start_time |-> h.start_time,
     end_time |-> IsoFormat(UtcNow(t)),
     duration_seconds |-> TraceDelta(h, t).seconds,
     timestamp |-> IsoFormat(UtcNow(t))]

_log_trace_uncaught(h, t, ok) ==
    IF ~es_client THEN Out(h, "none", <<"_log_trace">>, <<>>)
    ELSE Out(h, IF ok THEN "none" ELSE "ConnectionError", <<"_log_trace">>,
             <<[entry |-> "_log_trace", id |-> h.run_id,
                document |-> TraceDocument(h, t), ok |-> ok]>>)

_log_trace_unguarded(h, t, ok) ==
    Out(h, "none", <<"_log_trace">>,
        <<[entry |-> "_log_trace", id |-> h.run_id,
           document |-> TraceDocument(h, t), ok |-> ok /\ es_client]>>)

_log_trace_no_id(h, t, ok) ==
    IF ~es_client THEN Out(h, "none", <<"_log_trace">>, <<>>)
    ELSE Out(h, "none", <<"_log_trace">>,
             <<[entry |-> "_log_trace", id |-> NoId,
                document |-> TraceDocument(h, t), ok |-> ok]>>)

_log_trace(h, t, ok) ==
    IF ~es_client THEN Out(h, "none", <<"_log_trace">>, <<>>)
    ELSE IF TraceDelta(h, t) = TypeError
         THEN Out(h, "TypeError", <<"_log_trace">>, <<>>)
         ELSE Out(h, "none", <<"_log_trace">>,
                  <<[entry |-> "_log_trace", id |-> h.run_id,
                     document |-> TraceDocument(h, t), ok |-> ok]>>)

on_agent_action(h, action, t) ==
    LET step == [type |-> "action",
                 action |-> [tool |-> action.tool,
                             tool_input |-> action.tool_input,
                             log |-> Strip(action.log)],
                 timestamp |-> IsoFormat(NowUtc(t))]
    IN Out([h EXCEPT !.trace_data.steps = Append(@, step)], "none", <<>>, <<>>)

on_tool_end(h, output, t) ==
    LET step == [type |-> "observation",
                 observation |-> output,
                 timestamp |-> IsoFormat(NowUtc(t))]
    IN Out([h EXCEPT !.trace_data.steps = Append(@, step)], "none", <<>>, <<>>)

on_agent_finish(h, finish, t, ok) ==
    LET h1 == [h EXCEPT !.trace_data.final_output =
                            DictGet(finish.return_values, "output", Str(<<>>)),
                        !.trace_data.status = "finished"]
        delta == DtSub(NowUtc(t), h.start_time)
    IN IF delta = TypeError
       THEN Out(h1, "TypeError", <<>>, <<>>)
       ELSE _log_to_elasticsearch(
                [h1 EXCEPT !.trace_data.duration_ms = delta.seconds * 1000], ok)

_handle_error(h, error, t, ok) ==
    LET h1 == [h EXCEPT !.final_answer = Str(<<"Error", ": ">> \o ErrStr(error).s),
                        !.trace_data.status = "error",
                        !.trace_data.error = ErrStr(error)]
        delta == DtSub(NowUtc(t), h.start_time)
    IN IF delta = TypeError
       THEN Out(h1, "TypeError", <<>>, <<>>)
       ELSE _log_to_elasticsearch(
                [h1 EXCEPT !.trace_data.duration_ms = delta.seconds * 1000], ok)

on_llm_error(h, error, t, ok) == _handle_error(h, error, t, ok)

on_tool_error(h, error, t, ok) == _handle_error(h, error, t, ok)

\* serialized.get('name', 'unknown') for the log line: a `serialized` without
\* .get (None) raises AttributeError; `inputs` is only formatted into the line
on_chain_start(h, serialized) ==
    IF serialized.py # "dict"
    THEN Out(h, "AttributeError", <<>>, <<>>)
    ELSE Out(h, "none", <<>>, <<>>)

on_chain_error(h, error, t, ok) ==
    LET h1 == [h EXCEPT !.final_answer = Str(<<>>),
                        !.trace_data.status = "error",
                        !.trace_data.error = ErrStr(error)]
        delta == DtSub(NowUtc(t), h.start_time)
    IN IF delta = TypeError
       THEN Out(h1, "TypeError", <<>>, <<>>)
       ELSE _log_trace([h1 EXCEPT !.trace_data.duration_ms = delta.seconds * 1000],
                       t, ok)

on_chain_end_keeps_answer(h, outputs, t, ok) ==
    IF h.final_answer = None /\ outputs.py # "dict"
    THEN Out(h, "AttributeError", <<>>, <<>>)
    ELSE IF h.final_answer # None \/ h.steps # <<>>
         THEN _log_trace(h, t, ok)
         ELSE Out(h, "none", <<>>, <<>>)

\* outputs.get is evaluated only while final_answer is None (`and` short-circuits)
on_chain_end(h, outputs, t, ok) ==
    IF h.final_answer = None /\ outputs.py # "dict"
    THEN Out(h, "AttributeError", <<>>, <<>>)
    ELSE LET h1 == IF h.final_answer = None /\ Truthy(DictGet(outputs, "output", None))
                   THEN [h EXCEPT !.final_answer = outputs.items["output"]]
                   ELSE h
         IN IF h1.final_answer # None \/ h1.steps # <<>>
            THEN _log_trace(h1, t, ok)
            ELSE Out(h1, "none", <<>>, <<>>)

set_agent_context(h, agent_type, q) ==
    [h EXCEPT !.agent_type = agent_type,
              !.original_question = IF q # <<>> THEN q ELSE @]

-----------------------------------------------------------------------------
(* Inputs *)

Keys == {"top", "sql", "analytics", "reporting"}
Unbound == [py |-> "unbound"]

Questions == {<<"how many customers">>}
ToolActions == {[tool |-> "sql_db_query", tool_input |-> <<"SELECT">>,
                 log |-> <<"\n", "Invoking", "\n">>]}
Observations == {Str(<<"11">>)}
AgentOutputs == {Str(<<>>), Str(<<"11 customers">>), Str(<<"Error", " rate 11">>)}
Errors == {[py |-> "Exception", msg |-> <<"boom">>]}
\* what the agent's output parser raises on an LLM output it cannot parse
ParsingErrors == {[py |-> "OutputParserException", msg |-> <<"Could not parse LLM output">>]}
\* the step AgentExecutor takes for a parsing failure it handles
ExceptionAction == [tool |-> "_Exception",
                    tool_input |-> <<"Invalid or incomplete response">>,
                    log |-> <<"Could not parse LLM output">>]
ExceptionObservation == Str(<<"Invalid or incomplete response">>)
\* the `serialized` argument on_chain_start is delivered with: the chain's
\* serialized form, or None where the callback manager has none
Serializeds == {Dict([name |-> Str(<<"AgentExecutor">>)]), None}
\* what the nested chains of an executor (prompt | llm | parser, LLMChain) end with
NestedOutputs == {Dict([text |-> Str(<<"thought">>)]), [py |-> "AgentFinish"]}
EmptyDict == Dict([key \in {} |-> None])

\* AgentExecutor(max_iterations=...) of the executor traced by handler k
MaxIterations(k) ==
    IF k = "sql" THEN max_iterations_sql
    ELSE IF k = "analytics" THEN max_iterations_analytics
    ELSE IF k = "reporting" THEN max_iterations_reporting
    ELSE max_iterations_single

-----------------------------------------------------------------------------
(* State *)

\* a request that has not been received yet
IdleRequest ==
    [handlers |-> [k \in Keys |-> Unbound],
     events |-> [k \in Keys |-> <<>>],
     flush_calls |-> [k \in Keys |-> 0],
     raised |-> "none",
     last_call |-> "none",
     pc |-> "idle",
     cur |-> "none",
     phase |-> "off",
     iterations |-> 0,
     pending |-> None,
     question |-> <<>>,
     all_steps |-> <<>>,
     stage_out |-> [k \in {} |-> None],
     invocations |-> <<>>,
     pq_outcome |-> [kind |-> "none"],
     response |-> None]

Init ==
    /\ es_client \in BOOLEAN
    /\ store = {}
    /\ index_calls = <<>>
    /\ flush_calls = [k \in Keys |-> 0]
    /\ handlers = [k \in Keys |-> Unbound]
    /\ events = [k \in Keys |-> <<>>]
    /\ raised = "none"
    /\ last_call = "none"
    /\ now = 0
    /\ next_uuid = 1
    /\ pc = "idle"
    /\ cur = "none"
    /\ phase = "off"
    /\ iterations = 0
    /\ pending = None
    /\ question = <<>>
    /\ all_steps = <<>>
    /\ stage_out = [k \in {} |-> None]
    /\ invocations = <<>>
    /\ pq_outcome = [kind |-> "none"]
    /\ response = None
    /\ calls = 0
    /\ other = IdleRequest
    /\ switches = 0
    /\ health = None
    /\ recoveries = 0
    /\ validation = None

recorder == <<store, index_calls, flush_calls, handlers, raised, last_call>>
executor == <<cur, phase, iterations, pending>>
request == <<pc, question, all_steps, stage_out, invocations, pq_outcome, response>>

\* the effect of one handler method call on the recorder's state
Apply(k, name, out) ==
    /\ handlers' = [handlers EXCEPT ![k] = out.h]
    /\ flush_calls' = [flush_calls EXCEPT ![k] = @ + Len(out.flushes)]
    /\ index_calls' = index_calls \o
           [i \in 1..Len(out.writes) |->
               [by |-> k, entry |-> out.writes[i].entry, id |-> out.writes[i].id,
                document |-> out.writes[i].document, ok |-> out.writes[i].ok]]
    /\ store' = StoreAfter(store, out.writes)
    /\ raised' = out.raised
    /\ last_call' = name

-----------------------------------------------------------------------------
(* One executor run, AgentExecutor.invoke(..., config={"callbacks": [h]}), *)
(* as the callbacks it delivers to h.  The callback manager logs and drops *)
(* an exception a handler raises (raise_error is False).                   *)

Running == pc \in {"hq", "pq_sql", "pq_analytics", "pq_reporting"}

ChainStart ==
    /\ Running /\ phase = "start"
    /\ \E serialized \in Serializeds :
          Apply(cur, "on_chain_start", on_chain_start(handlers[cur], serialized))
    /\ phase' = "llm"
    /\ now' = now + 1
    /\ UNCHANGED <<es_client, recoveries, other, switches, health, validation, events,
                   next_uuid, cur, iterations, pending, request, calls>>

LlmEnd ==
    /\ Running /\ phase = "llm"
    /\ iterations < MaxIterations(cur)
    /\ phase' = "plan"
    /\ last_call' = "on_llm_end"
    /\ raised' = "none"
    /\ now' = now + 1
    /\ UNCHANGED <<es_client, recoveries, other, switches, health, validation, store, index_calls, flush_calls, handlers, events,
                   next_uuid, cur, iterations, pending, request, calls>>

LlmError ==
    /\ Running /\ phase = "llm"
    /\ \E error \in Errors, ok \in BOOLEAN :
          /\ Apply(cur, "on_llm_error", on_llm_error(handlers[cur], error, now, ok))
          /\ pending' = error
    /\ phase' = "failing"
    /\ now' = now + 1
    /\ UNCHANGED <<es_client, recoveries, other, switches, health, validation, events, next_uuid, cur, iterations, request, calls>>

NestedChainEnd ==
    /\ Running /\ phase = "plan"
    /\ \E outputs \in NestedOutputs, ok \in BOOLEAN :
          Apply(cur, "on_chain_end", on_chain_end(handlers[cur], outputs, now, ok))
    /\ phase' = "act"
    /\ now' = now + 1
    /\ UNCHANGED <<es_client, recoveries, other, switches, health, validation, events, next_uuid, cur, iterations, pending,
                   request, calls>>

AgentAct ==
    /\ Running /\ phase = "act"
    /\ iterations < MaxToolCalls
    /\ \E action \in ToolActions :
          /\ Apply(cur, "on_agent_action", on_agent_action(handlers[cur], action, now))
          /\ events' = [events EXCEPT ![cur] =
                           Append(@, [type |-> "action", tool |-> action.tool,
                                      tool_input |-> action.tool_input])]
    /\ phase' = "tool"
    /\ now' = now + 1
    /\ UNCHANGED <<es_client, recoveries, other, switches, health, validation, next_uuid, cur, iterations, pending, request, calls>>

ToolEnd ==
    /\ Running /\ phase = "tool"
    /\ \E output \in Observations :
          /\ Apply(cur, "on_tool_end", on_tool_end(handlers[cur], output, now))
          /\ events' = [events EXCEPT ![cur] =
                           Append(@, [type |-> "observation", observation |-> output])]
    /\ phase' = "llm"
    /\ iterations' = iterations + 1
    /\ now' = now + 1
    /\ UNCHANGED <<es_client, recoveries, other, switches, health, validation, next_uuid, cur, pending, request, calls>>

\* The stage executors are built with handle_parsing_errors=True: when the
\* agent's chain fails to parse the LLM output, that nested chain reports
\* on_chain_error to the handler, and the executor goes on with an _Exception
\* step (on_agent_action, on_tool_end), which uses up the iteration.
StageRunning == pc \in {"pq_sql", "pq_analytics", "pq_reporting"}

ParsingErrorRecovered ==
    /\ StageRunning /\ phase = "plan"
    /\ iterations < MaxToolCalls
    /\ recoveries < MaxRecoveries
    /\ \E error \in ParsingErrors, ok \in BOOLEAN :
          Apply(cur, "on_chain_error", on_chain_error(handlers[cur], error, now, ok))
    /\ phase' = "handled"
    /\ recoveries' = recoveries + 1
    /\ now' = now + 1
    /\ UNCHANGED <<es_client, other, switches, health, validation, events, next_uuid, cur, iterations, pending,
                   request, calls>>

ExceptionAct ==
    /\ StageRunning /\ phase = "handled"
    /\ Apply(cur, "on_agent_action", on_agent_action(handlers[cur], ExceptionAction, now))
    /\ events' = [events EXCEPT ![cur] =
                     Append(@, [type |-> "action", tool |-> ExceptionAction.tool,
                                tool_input |-> ExceptionAction.tool_input])]
    /\ phase' = "exception_tool"
    /\ now' = now + 1
    /\ UNCHANGED <<es_client, recoveries, other, switches, health, validation, next_uuid, cur, iterations, pending, request, calls>>

ExceptionToolEnd ==
    /\ StageRunning /\ phase = "exception_tool"
    /\ Apply(cur, "on_tool_end", on_tool_end(handlers[cur], ExceptionObservation, now))
    /\ events' = [events EXCEPT ![cur] =
                     Append(@, [type |-> "observation", observation |-> ExceptionObservation])]
    /\ phase' = "llm"
    /\ iterations' = iterations + 1
    /\ now' = now + 1
    /\ UNCHANGED <<es_client, recoveries, other, switches, health, validation, next_uuid, cur, pending, request, calls>>

ToolError ==
    /\ Running /\ phase = "tool"
    /\ \E error \in Errors, ok \in BOOLEAN :
          /\ Apply(cur, "on_tool_error", on_tool_error(handlers[cur], error, now, ok))
          /\ pending' = error
    /\ phase' = "failing"
    /\ now' = now + 1
    /\ UNCHANGED <<es_client, recoveries, other, switches, health, validation, events, next_uuid, cur, iterations, request, calls>>

AgentFinish ==
    /\ Running /\ phase = "act"
    /\ \E output \in AgentOutputs, ok \in BOOLEAN :
          /\ Apply(cur, "on_agent_finish",
                   on_agent_finish(handlers[cur],
                                   [return_values |-> Dict([output |-> output])],
                                   now, ok))
          /\ pending' = output
    /\ phase' = "finishing"
    /\ now' = now + 1
    /\ UNCHANGED <<es_client, recoveries, other, switches, health, validation, events, next_uuid, cur, iterations, request, calls>>

ChainEnd ==
    /\ Running /\ phase = "finishing"
    /\ \E ok \in BOOLEAN :
          Apply(cur, "on_chain_end",
                on_chain_end(handlers[cur], Dict([output |-> pending]), now, ok))
    /\ phase' = "returned"
    /\ now' = now + 1
    /\ UNCHANGED <<es_client, recoveries, other, switches, health, validation, events, next_uuid, cur, iterations, pending,
                   request, calls>>

ChainError ==
    /\ Running /\ phase = "failing"
    /\ \E ok \in BOOLEAN :
          Apply(cur, "on_chain_error", on_chain_error(handlers[cur], pending, now, ok))
    /\ phase' = "raised"
    /\ now' = now + 1
    /\ UNCHANGED <<es_client, recoveries, other, switches, health, validation, events, next_uuid, cur, iterations, pending,
                   request, calls>>

-----------------------------------------------------------------------------
(* main.handle_query: the single-agent entry point *)

\* handle_query with one recorder object kept for all requests
HandleQueryBegin_shared_recorder ==
    /\ pc = "idle"
    /\ \E q \in Questions :
          /\ question' = q
          /\ invocations' = <<[stage |-> "agent",
                               input |-> <<"You are an expert business intelligence analyst. ",
                                           "Your goal is to provide concise, accurate, and actionable insights based on the user's question. ",
                                           "Here is the user's question: ">> \o q]>>
    /\ handlers' = [handlers EXCEPT !["top"] =
                        IF other.handlers["top"] # Unbound THEN other.handlers["top"]
                        ELSE NewHandler(next_uuid, now)]
    /\ next_uuid' = next_uuid + 1
    /\ pc' = "hq"
    /\ cur' = "top" /\ phase' = "start" /\ iterations' = 0 /\ pending' = None
    /\ last_call' = "__init__" /\ raised' = "none"
    /\ now' = now + 1
    /\ UNCHANGED <<es_client, recoveries, other, switches, health, validation, store, index_calls, flush_calls, events, all_steps,
                   stage_out, pq_outcome, response, calls>>

HandleQueryBegin ==
    /\ pc = "idle"
    /\ \E q \in Questions :
          /\ question' = q
          /\ invocations' = <<[stage |-> "agent",
                               input |-> <<"You are an expert business intelligence analyst. ",
                                           "Your goal is to provide concise, accurate, and actionable insights based on the user's question. ",
                                           "Here is the user's question: ">> \o q]>>
    /\ handlers' = [handlers EXCEPT !["top"] = NewHandler(next_uuid, now)]
    /\ next_uuid' = next_uuid + 1
    /\ pc' = "hq"
    /\ cur' = "top" /\ phase' = "start" /\ iterations' = 0 /\ pending' = None
    /\ last_call' = "__init__" /\ raised' = "none"
    /\ now' = now + 1
    /\ UNCHANGED <<es_client, recoveries, other, switches, health, validation, store, index_calls, flush_calls, events, all_steps,
                   stage_out, pq_outcome, response, calls>>

HandleQueryReturn ==
    /\ pc = "hq" /\ phase = "returned"
    /\ response' = [answer |-> DictGet(Dict([output |-> pending]), "output",
                                       Str(<<"No output found.">>)),
                    run_id |-> handlers["top"].run_id,
                    error |-> None]
    /\ pc' = "done" /\ cur' = "none" /\ phase' = "off"
    /\ now' = now + 1
    /\ UNCHANGED <<es_client, recoveries, other, switches, health, validation, recorder, events, next_uuid, iterations, pending,
                   question, all_steps, stage_out, invocations, pq_outcome, calls>>

HandleQueryExcept ==
    /\ pc = "hq" /\ phase = "raised"
    /\ response' = [answer |-> Str(<<>>),
                    run_id |-> handlers["top"].run_id,
                    error |-> Str(<<"An error occurred: ">> \o ErrStr(pending).s)]
    /\ pc' = "done" /\ cur' = "none" /\ phase' = "off"
    /\ now' = now + 1
    /\ UNCHANGED <<es_client, recoveries, other, switches, health, validation, recorder, events, next_uuid, iterations, pending,
                   question, all_steps, stage_out, invocations, pq_outcome, calls>>

-----------------------------------------------------------------------------
(* MultiAgentOrchestrator.process_query, called by main.multi_agent_query *)

PqExceptBlock_keeps_answer(h, steps) == [h EXCEPT !.steps = steps]

\* the except block
PqExceptBlock(h, steps) == [h EXCEPT !.final_answer = Str(<<>>), !.steps = steps]

PqFinally_success_only(h, t, ok) ==
    IF Truthy(h.final_answer)
    THEN on_chain_end(h, Dict([output |-> h.final_answer]), t, ok)
    ELSE Out(h, "none", <<>>, <<>>)

\* the finally block
PqFinally(h, t, ok) ==
    IF Truthy(h.final_answer)
    THEN on_chain_end(h, Dict([output |-> h.final_answer]), t, ok)
    ELSE on_chain_end(h, EmptyDict, t, ok)

\* what process_query ends with, given what its body ends with and the finally block
\* (an exception of the finally block replaces the body's outcome; _log_trace's
\* TypeError, of a handler whose start_time is aware, carries Python's message)
PqEnd(body, out) ==
    IF out.raised # "none"
    THEN [kind |-> "raise",
          error |-> [py |-> out.raised,
                     msg |-> IF out.raised = "TypeError"
                             THEN <<"can't subtract offset-naive and offset-aware datetimes">>
                             ELSE <<out.raised>>]]
    ELSE body

MultiAgentQueryBegin ==
    /\ pc = "idle"
    /\ \E q \in Questions :
          /\ question' = q
          /\ handlers' = [handlers EXCEPT
                 !["top"] = set_agent_context(
                                [NewHandler(next_uuid, now) EXCEPT !.steps = <<>>],
                                "Orchestrator", q),
                 !["sql"] = NewHandler(next_uuid + 1, now)]
          /\ invocations' = <<[stage |-> "SQL Agent",
                               input |-> <<"Find data to answer: ">> \o q]>>
    /\ next_uuid' = next_uuid + 2
    /\ all_steps' = <<>>
    /\ pc' = "pq_sql"
    /\ cur' = "sql" /\ phase' = "start" /\ iterations' = 0 /\ pending' = None
    /\ last_call' = "__init__" /\ raised' = "none"
    /\ now' = now + 1
    /\ UNCHANGED <<es_client, recoveries, other, switches, health, validation, store, index_calls, flush_calls, events, stage_out,
                   pq_outcome, response, calls>>

PqAfterSql ==
    /\ pc = "pq_sql" /\ phase = "returned"
    /\ all_steps' = all_steps \o handlers["sql"].steps
    /\ stage_out' = [k \in {"sql"} |-> pending]
    /\ handlers' = [handlers EXCEPT !["analytics"] = NewHandler(next_uuid, now)]
    /\ next_uuid' = next_uuid + 1
    /\ invocations' = Append(invocations,
                             [stage |-> "Analytics Agent",
                              input |-> <<"Analyze this data: ">> \o pending.s])
    /\ pc' = "pq_analytics"
    /\ cur' = "analytics" /\ phase' = "start" /\ iterations' = 0 /\ pending' = None
    /\ last_call' = "__init__" /\ raised' = "none"
    /\ now' = now + 1
    /\ UNCHANGED <<es_client, recoveries, other, switches, health, validation, store, index_calls, flush_calls, events, question,
                   pq_outcome, response, calls>>

\* the Reporting stage invoked with the Analytics output alone
PqAfterAnalytics_drops_sql ==
    /\ pc = "pq_analytics" /\ phase = "returned"
    /\ all_steps' = all_steps \o handlers["analytics"].steps
    /\ stage_out' = [k \in {"sql", "analytics"} |->
                        IF k = "sql" THEN stage_out["sql"] ELSE pending]
    /\ handlers' = [handlers EXCEPT !["reporting"] = NewHandler(next_uuid, now)]
    /\ next_uuid' = next_uuid + 1
    /\ invocations' = Append(invocations,
                             [stage |-> "Reporting Agent",
                              input |-> <<"Create a business report from: SQL Data: ">>
                                        \o <<" Analytics: ">> \o pending.s])
    /\ pc' = "pq_reporting"
    /\ cur' = "reporting" /\ phase' = "start" /\ iterations' = 0 /\ pending' = None
    /\ last_call' = "__init__" /\ raised' = "none"
    /\ now' = now + 1
    /\ UNCHANGED <<es_client, recoveries, other, switches, health, validation, store, index_calls, flush_calls, events, question,
                   pq_outcome, response, calls>>

PqAfterAnalytics ==
    /\ pc = "pq_analytics" /\ phase = "returned"
    /\ all_steps' = all_steps \o handlers["analytics"].steps
    /\ stage_out' = [k \in {"sql", "analytics"} |->
                        IF k = "sql" THEN stage_out["sql"] ELSE pending]
    /\ handlers' = [handlers EXCEPT !["reporting"] = NewHandler(next_uuid, now)]
    /\ next_uuid' = next_uuid + 1
    /\ invocations' = Append(invocations,
                             [stage |-> "Reporting Agent",
                              input |-> <<"Create a business report from: SQL Data: ">>
                                        \o stage_out["sql"].s \o <<" Analytics: ">>
                                        \o pending.s])
    /\ pc' = "pq_reporting"
    /\ cur' = "reporting" /\ phase' = "start" /\ iterations' = 0 /\ pending' = None
    /\ last_call' = "__init__" /\ raised' = "none"
    /\ now' = now + 1
    /\ UNCHANGED <<es_client, recoveries, other, switches, health, validation, store, index_calls, flush_calls, events, question,
                   pq_outcome, response, calls>>

PqFinish ==
    /\ pc = "pq_reporting" /\ phase = "returned"
    /\ LET steps == all_steps \o handlers["reporting"].steps
           final_answer == pending
           top == [handlers["top"] EXCEPT !.steps = steps,
                                          !.final_answer = final_answer]
           result == [sql_findings |-> stage_out["sql"],
                      analytics_insights |-> stage_out["analytics"],
                      final_report |-> final_answer,
                      agent_flow |-> <<"SQL Agent", "Analytics Agent", "Reporting Agent">>]
       IN \E ok \in BOOLEAN :
             LET out == PqFinally(top, now, ok)
             IN /\ Apply("top", "on_chain_end", out)
                /\ pq_outcome' = PqEnd([kind |-> "return", value |-> result], out)
                /\ all_steps' = steps
    /\ stage_out' = [k \in {"sql", "analytics", "reporting"} |->
                        IF k = "reporting" THEN pending ELSE stage_out[k]]
    /\ pc' = "pq_done" /\ cur' = "none" /\ phase' = "off"
    /\ now' = now + 1
    /\ UNCHANGED <<es_client, recoveries, other, switches, health, validation, events, next_uuid, iterations, pending, question,
                   invocations, response, calls>>

PqExcept ==
    /\ pc \in {"pq_sql", "pq_analytics", "pq_reporting"} /\ phase = "raised"
    /\ \E ok \in BOOLEAN :
          LET out == PqFinally(PqExceptBlock(handlers["top"], all_steps), now, ok)
          IN /\ Apply("top", "on_chain_end", out)
             /\ pq_outcome' = PqEnd([kind |-> "raise", error |-> pending], out)
    /\ pc' = "pq_done" /\ cur' = "none" /\ phase' = "off"
    /\ now' = now + 1
    /\ UNCHANGED <<es_client, recoveries, other, switches, health, validation, events, next_uuid, iterations, pending, question,
                   all_steps, stage_out, invocations, response, calls>>

\* multi_agent_query whose except branch returns the stage outputs obtained so far
MultiAgentQueryRespond_partial ==
    /\ pc = "pq_done"
    /\ response' =
          [question |-> question,
           sql_findings |-> IF "sql" \in DOMAIN stage_out THEN stage_out["sql"]
                            ELSE Str(<<>>),
           analytics_insights |-> IF "analytics" \in DOMAIN stage_out
                                  THEN stage_out["analytics"] ELSE Str(<<>>),
           final_report |-> IF "reporting" \in DOMAIN stage_out
                            THEN stage_out["reporting"] ELSE Str(<<>>),
           agent_flow |-> IF pq_outcome.kind = "return"
                          THEN pq_outcome.value.agent_flow ELSE <<>>,
           run_id |-> handlers["top"].run_id,
           error |-> IF pq_outcome.kind = "return" THEN None
                     ELSE Str(<<"Multi-agent processing failed: ">>
                              \o ErrStr(pq_outcome.error).s)]
    /\ pc' = "done"
    /\ now' = now + 1
    /\ UNCHANGED <<es_client, recoveries, other, switches, health, validation, recorder, events, next_uuid, executor, question,
                   all_steps, stage_out, invocations, pq_outcome, calls>>

MultiAgentQueryRespond ==
    /\ pc = "pq_done"
    /\ response' =
          IF pq_outcome.kind = "return"
          THEN [question |-> question,
                sql_findings |-> pq_outcome.value.sql_findings,
                analytics_insights |-> pq_outcome.value.analytics_insights,
                final_report |-> pq_outcome.value.final_report,
                agent_flow |-> pq_outcome.value.agent_flow,
                run_id |-> handlers["top"].run_id,
                error |-> None]
          ELSE [question |-> question,
                sql_findings |-> Str(<<>>),
                analytics_insights |-> Str(<<>>),
                final_report |-> Str(<<>>),
                agent_flow |-> <<>>,
                run_id |-> handlers["top"].run_id,
                error |-> Str(<<"Multi-agent processing failed: ">>
                              \o ErrStr(pq_outcome.error).s)]
    /\ pc' = "done"
    /\ now' = now + 1
    /\ UNCHANGED <<es_client, recoveries, other, switches, health, validation, recorder, events, next_uuid, executor, question,
                   all_steps, stage_out, invocations, pq_outcome, calls>>

-----------------------------------------------------------------------------

Next ==
    \/ HandleQueryBegin \/ HandleQueryReturn \/ HandleQueryExcept
    \/ MultiAgentQueryBegin \/ PqAfterSql \/ PqAfterAnalytics \/ PqFinish
    \/ PqExcept \/ MultiAgentQueryRespond
    \/ ChainStart \/ LlmEnd \/ LlmError \/ NestedChainEnd \/ AgentAct
    \/ ToolEnd \/ ToolError \/ AgentFinish \/ ChainEnd \/ ChainError
    \/ ParsingErrorRecovered \/ ExceptionAct \/ ExceptionToolEnd

Spec == Init /\ [][Next]_vars

-----------------------------------------------------------------------------
(* Runs of the single agent in which a failure is recovered: the handler   *)
(* receives the error callback, the failure becomes the observation of     *)
(* that iteration and the loop goes on to its next LLM call.               *)

LlmErrorRecovered ==
    /\ pc = "hq" /\ phase = "llm"
    /\ iterations < MaxIterations(cur) /\ iterations < MaxToolCalls
    /\ \E error \in Errors, ok \in BOOLEAN :
          Apply(cur, "on_llm_error", on_llm_error(handlers[cur], error, now, ok))
    /\ iterations' = iterations + 1
    /\ now' = now + 1
    /\ UNCHANGED <<es_client, recoveries, other, switches, health, validation, events, next_uuid, cur, phase, pending,
                   request, calls>>

ToolErrorRecovered ==
    /\ pc = "hq" /\ phase = "tool"
    /\ \E error \in Errors, ok \in BOOLEAN :
          Apply(cur, "on_tool_error", on_tool_error(handlers[cur], error, now, ok))
    /\ phase' = "llm"
    /\ iterations' = iterations + 1
    /\ now' = now + 1
    /\ UNCHANGED <<es_client, recoveries, other, switches, health, validation, events, next_uuid, cur, pending, request, calls>>

NextRecover == Next \/ LlmErrorRecovered \/ ToolErrorRecovered

SpecRecover == Init /\ [][NextRecover]_vars

-----------------------------------------------------------------------------
(* Executor runs that go up to the iteration ceiling: every LLM and tool   *)
(* call returns and the agent asks for one more tool call each time.       *)
(* AgentExecutor leaves its loop when iterations reaches       *)
(* max_iterations and asks the agent for its stopped response, according   *)
(* to early_stopping_method: "force", the default of the three stage       *)
(* executors, answers with a fixed text; "generate", which agent.py asks   *)
(* for, makes one more LLM call where the agent supports it and raises     *)
(* ValueError where it does not.                                           *)

StoppedText == Str(<<"Agent stopped due to iteration limit or time limit.">>)
Unsupported == [py |-> "ValueError",
                msg |-> <<"Got unsupported early_stopping_method generate">>]

\* the answers return_stopped_response can give for the executor traced by k
StoppedOutputs(k) == IF k = "top" THEN AgentOutputs ELSE {StoppedText}

\* the tool calls after the first MaxToolCalls ones
AgentActOn ==
    /\ Running /\ phase = "act"
    /\ iterations >= MaxToolCalls
    /\ \E action \in ToolActions :
          /\ Apply(cur, "on_agent_action", on_agent_action(handlers[cur], action, now))
          /\ events' = [events EXCEPT ![cur] =
                           Append(@, [type |-> "action", tool |-> action.tool,
                                      tool_input |-> action.tool_input])]
    /\ phase' = "tool"
    /\ now' = now + 1
    /\ UNCHANGED <<es_client, recoveries, other, switches, health, validation, next_uuid, cur, iterations, pending, request, calls>>

\* the loop condition fails: the stopped response is the run's answer
ForcedStop ==
    /\ Running /\ phase = "llm"
    /\ iterations = MaxIterations(cur)
    /\ \E output \in StoppedOutputs(cur), ok \in BOOLEAN :
          /\ Apply(cur, "on_agent_finish",
                   on_agent_finish(handlers[cur],
                                   [return_values |-> Dict([output |-> output])],
                                   now, ok))
          /\ pending' = output
    /\ phase' = "finishing"
    /\ now' = now + 1
    /\ UNCHANGED <<es_client, recoveries, other, switches, health, validation, events, next_uuid, cur, iterations, request, calls>>

\* the loop condition fails and the agent has no "generate" response
ForcedStopUnsupported ==
    /\ pc = "hq" /\ phase = "llm"
    /\ iterations = MaxIterations(cur)
    /\ pending' = Unsupported
    /\ phase' = "failing"
    /\ now' = now + 1
    /\ UNCHANGED <<es_client, recoveries, other, switches, health, validation, recorder, events, next_uuid, cur, iterations,
                   request, calls>>

NextCeiling ==
    \/ HandleQueryBegin \/ HandleQueryReturn \/ HandleQueryExcept
    \/ MultiAgentQueryBegin \/ PqAfterSql \/ PqAfterAnalytics \/ PqFinish
    \/ MultiAgentQueryRespond
    \/ ChainStart \/ LlmEnd \/ NestedChainEnd \/ AgentAct \/ AgentActOn
    \/ ToolEnd \/ ForcedStop \/ ForcedStopUnsupported
    \/ ChainEnd \/ ChainError

\* a request, once received, is served until its response is returned
SpecCeiling == Init /\ [][NextCeiling]_vars /\ WF_vars(NextCeiling)

-----------------------------------------------------------------------------
(* One TraceLoggerCallbackHandler driven directly: its methods called in   *)
(* any order, with any arguments, MaxCalls times.                          *)

InitHandler ==
    /\ es_client \in BOOLEAN
    /\ store = {}
    /\ index_calls = <<>>
    /\ flush_calls = [k \in Keys |-> 0]
    /\ handlers = [k \in Keys |-> IF k = "top" THEN NewHandler(1, 0) ELSE Unbound]
    /\ events = [k \in Keys |-> <<>>]
    /\ raised = "none"
    /\ last_call = "__init__"
    /\ now = 1
    /\ next_uuid = 2
    /\ pc = "direct"
    /\ cur = "top"
    /\ phase = "off"
    /\ iterations = 0
    /\ pending = None
    /\ question = <<>>
    /\ all_steps = <<>>
    /\ stage_out = [k \in {} |-> None]
    /\ invocations = <<>>
    /\ pq_outcome = [kind |-> "none"]
    /\ response = None
    /\ calls = 0
    /\ other = IdleRequest
    /\ switches = 0
    /\ health = None
    /\ recoveries = 0
    /\ validation = None

Direct(name, out) ==
    /\ pc = "direct" /\ calls < MaxCalls
    /\ Apply("top", name, out)
    /\ calls' = calls + 1
    /\ now' = now + 1
    /\ UNCHANGED <<es_client, recoveries, other, switches, health, validation, next_uuid, executor, request>>

ChainEndOutputs ==
    NestedOutputs \cup {EmptyDict} \cup {Dict([output |-> o]) : o \in AgentOutputs}

Call_on_agent_action ==
    /\ \E action \in ToolActions :
          /\ Direct("on_agent_action", on_agent_action(handlers["top"], action, now))
          /\ events' = [events EXCEPT !["top"] =
                           Append(@, [type |-> "action", tool |-> action.tool,
                                      tool_input |-> action.tool_input])]

Call_on_tool_end ==
    /\ \E output \in Observations :
          /\ Direct("on_tool_end", on_tool_end(handlers["top"], output, now))
          /\ events' = [events EXCEPT !["top"] =
                           Append(@, [type |-> "observation", observation |-> output])]

Call_on_agent_finish ==
    /\ \E output \in AgentOutputs, ok \in BOOLEAN :
          Direct("on_agent_finish",
                 on_agent_finish(handlers["top"],
                                 [return_values |-> Dict([output |-> output])], now, ok))
    /\ UNCHANGED events

Call_on_llm_error ==
    /\ \E error \in Errors, ok \in BOOLEAN :
          Direct("on_llm_error", on_llm_error(handlers["top"], error, now, ok))
    /\ UNCHANGED events

Call_on_tool_error ==
    /\ \E error \in Errors, ok \in BOOLEAN :
          Direct("on_tool_error", on_tool_error(handlers["top"], error, now, ok))
    /\ UNCHANGED events

Call_on_chain_error ==
    /\ \E error \in Errors, ok \in BOOLEAN :
          Direct("on_chain_error", on_chain_error(handlers["top"], error, now, ok))
    /\ UNCHANGED events

Call_on_chain_start ==
    /\ \E serialized \in Serializeds :
          Direct("on_chain_start", on_chain_start(handlers["top"], serialized))
    /\ UNCHANGED events

Call_on_chain_end ==
    /\ \E outputs \in ChainEndOutputs, ok \in BOOLEAN :
          Direct("on_chain_end", on_chain_end(handlers["top"], outputs, now, ok))
    /\ UNCHANGED events

Call_set_agent_context ==
    /\ \E q \in Questions \cup {<<>>} :
          Direct("set_agent_context",
                 Out(set_agent_context(handlers["top"], "Orchestrator", q),
                     "none", <<>>, <<>>))
    /\ UNCHANGED events

Call_log_to_elasticsearch ==
    /\ \E ok \in BOOLEAN :
          Direct("_log_to_elasticsearch", _log_to_elasticsearch(handlers["top"], ok))
    /\ UNCHANGED events

Call_log_trace ==
    /\ \E ok \in BOOLEAN :
          Direct("_log_trace", _log_trace(handlers["top"], now, ok))
    /\ UNCHANGED events

NextHandler ==
    \/ Call_on_agent_action \/ Call_on_tool_end \/ Call_on_agent_finish
    \/ Call_on_llm_error \/ Call_on_tool_error \/ Call_on_chain_error
    \/ Call_on_chain_start \/ Call_on_chain_end \/ Call_set_agent_context
    \/ Call_log_to_elasticsearch \/ Call_log_trace

SpecHandler == InitHandler /\ [][NextHandler]_vars

\* the service and the directly driven handler together
SpecAll == (Init \/ InitHandler) /\ [][Next \/ NextHandler]_vars

-----------------------------------------------------------------------------
(* Two POST /query requests in flight at once.  The variables of a request *)
(* hold the request that is taking its step; `other` holds the request     *)
(* that waits.  The module-level objects (es_client, the store behind it,  *)
(* the clock, the uuid source and the executor `agent`) are shared.        *)

\* the state one request owns: its handlers and the locals of its entry point
Request ==
    [handlers |-> handlers,
     events |-> events,
     flush_calls |-> flush_calls,
     raised |-> raised,
     last_call |-> last_call,
     pc |-> pc,
     cur |-> cur,
     phase |-> phase,
     iterations |-> iterations,
     pending |-> pending,
     question |-> question,
     all_steps |-> all_steps,
     stage_out |-> stage_out,
     invocations |-> invocations,
     pq_outcome |-> pq_outcome,
     response |-> response]

\* the waiting request takes over
Switch ==
    /\ switches < MaxSwitches
    /\ other.pc # "done"
    /\ pc # "idle" \/ other.pc # "idle"
    /\ other' = Request
    /\ handlers' = other.handlers
    /\ events' = other.events
    /\ flush_calls' = other.flush_calls
    /\ raised' = other.raised
    /\ last_call' = other.last_call
    /\ pc' = other.pc
    /\ cur' = other.cur
    /\ phase' = other.phase
    /\ iterations' = other.iterations
    /\ pending' = other.pending
    /\ question' = other.question
    /\ all_steps' = other.all_steps
    /\ stage_out' = other.stage_out
    /\ invocations' = other.invocations
    /\ pq_outcome' = other.pq_outcome
    /\ response' = other.response
    /\ switches' = switches + 1
    /\ UNCHANGED <<es_client, recoveries, store, index_calls, now, next_uuid, calls, health,
                   validation>>

NextTwo ==
    \/ Switch
    \/ HandleQueryBegin \/ HandleQueryReturn \/ HandleQueryExcept
    \/ ChainStart \/ LlmEnd \/ LlmError \/ NestedChainEnd \/ AgentAct
    \/ ToolEnd \/ ToolError \/ AgentFinish \/ ChainEnd \/ ChainError

SpecTwo == Init /\ [][NextTwo]_vars

\* the executor object an invocation runs: agent.agent and the three executors
\* of main.multi_agent_system are built once, when their module is imported
ExecutorOf(stage) ==
    IF stage = "agent" THEN <<"agent", "agent">>
    ELSE <<"main", "multi_agent_system", stage>>

-----------------------------------------------------------------------------
(* main.health_check: GET /healthz, served while a recorder is at work *)

\* what es_client.info() does: it returns the cluster's description or raises
InfoOutcomes ==
    {Dict([cluster_name |-> Str(<<"docker-cluster">>),
           version |-> Dict([number |-> Str(<<"8.11.0">>)])]),
     Dict([cluster_name |-> Str(<<"docker-cluster">>)]),
     Dict([version |-> Dict([number |-> Str(<<"8.11.0">>)])]),
     [py |-> "ConnectionError", msg |-> <<"Connection refused">>]}

HealthPayload(status, info) ==
    [status |-> "ok",
     services |-> [elasticsearch |-> [status |-> status, info |-> info]]]

\* health_check without the try around the probe
health_check_unguarded(info) ==
    IF es_client
    THEN IF info.py = "dict"
         THEN [info_call |-> info, raised |-> "none",
               payload |-> HealthPayload("healthy",
                              [cluster_name |-> DictGet(info, "cluster_name", None),
                               version |-> DictGet(DictGet(info, "version", EmptyDict),
                                                   "number", None)])]
         ELSE [info_call |-> info, raised |-> info.py, payload |-> None]
    ELSE [info_call |-> None, raised |-> "none",
          payload |-> HealthPayload("disabled",
                         Str(<<"Elasticsearch client is not configured.">>))]

\* health_check, given what es_client.info() does if it is called
health_check(info) ==
    IF es_client
    THEN IF info.py = "dict"
         THEN [info_call |-> info, raised |-> "none",
               payload |-> HealthPayload("healthy",
                              [cluster_name |-> DictGet(info, "cluster_name", None),
                               version |-> DictGet(DictGet(info, "version", EmptyDict),
                                                   "number", None)])]
         ELSE [info_call |-> info, raised |-> "none",
               payload |-> HealthPayload("unhealthy", ErrStr(info))]
    ELSE [info_call |-> None, raised |-> "none",
          payload |-> HealthPayload("disabled",
                         Str(<<"Elasticsearch client is not configured.">>))]

HealthCheck ==
    /\ \E info \in InfoOutcomes : health' = health_check(info)
    /\ UNCHANGED <<es_client, recoveries, store, index_calls, flush_calls, handlers, events,
                   raised, last_call, now, next_uuid, executor, request, calls,
                   other, switches, validation>>

SpecHealth == InitHandler /\ [][NextHandler \/ HealthCheck]_vars

-----------------------------------------------------------------------------
(* evaluation_dataset.validate_sql_keywords / validate_answer_keywords.    *)
(* Here a str is a sequence of characters.                                 *)

Chars == {"a", "A", "b", "B"}

\* str.upper() and str.lower(), character by character
UpperChar(c) == IF c = "a" THEN "A" ELSE IF c = "b" THEN "B" ELSE c
LowerChar(c) == IF c = "A" THEN "a" ELSE IF c = "B" THEN "b" ELSE c
Upper(s) == [i \in 1..Len(s) |-> UpperChar(s[i])]
Lower(s) == [i \in 1..Len(s) |-> LowerChar(s[i])]

\* len(found) / len(expected): a float, kept as numerator and denominator
Float(n, d) == [py |-> "float", num |-> n, den |-> d]
PyInt(n) == [py |-> "int", num |-> n, den |-> 1]

\* the for loop without its else branch: a keyword that is not found is dropped
KeywordLoop_found_only(text, keywords, conv, found, missing) ==
    [found |-> found \o SelectSeq(keywords,
                                  LAMBDA keyword :
                                      IF conv = "upper" THEN Includes(text, Upper(keyword))
                                      ELSE Includes(text, Lower(keyword))),
     missing |-> missing]

\* the for loop of both validators: `conv` is "upper" or "lower"
RECURSIVE KeywordLoop(_, _, _, _, _)
KeywordLoop(text, keywords, conv, found, missing) ==
    IF keywords = <<>> THEN [found |-> found, missing |-> missing]
    ELSE LET keyword == Head(keywords)
             hit == IF conv = "upper" THEN Includes(text, Upper(keyword))
                    ELSE Includes(text, Lower(keyword))
         IN IF hit
            THEN KeywordLoop(text, Tail(keywords), conv, Append(found, keyword), missing)
            ELSE KeywordLoop(text, Tail(keywords), conv, found, Append(missing, keyword))

\* the returned dict, with a score that divides whatever the list is
KeywordResult_always_divides(lists, expected_keywords) ==
    [found |-> lists.found,
     missing |-> lists.missing,
     score |-> Float(Len(lists.found), Len(expected_keywords))]

\* the returned dict
KeywordResult(lists, expected_keywords) ==
    [found |-> lists.found,
     missing |-> lists.missing,
     score |-> IF expected_keywords # <<>>
               THEN Float(Len(lists.found), Len(expected_keywords))
               ELSE PyInt(0)]

validate_sql_keywords(sql_query, expected_keywords) ==
    KeywordResult(KeywordLoop(Upper(sql_query), expected_keywords, "upper", <<>>, <<>>),
                  expected_keywords)

validate_answer_keywords(answer, expected_keywords) ==
    KeywordResult(KeywordLoop(Lower(answer), expected_keywords, "lower", <<>>, <<>>),
                  expected_keywords)

\* the arguments the validators are called with
RECURSIVE SeqsUpTo(_, _)
SeqsUpTo(S, n) ==
    IF n = 0 THEN {<<>>}
    ELSE LET shorter == SeqsUpTo(S, n - 1)
         IN shorter \cup {Append(q, x) : q \in shorter, x \in S}

Texts == SeqsUpTo(Chars, MaxTextLen)
Keywords == {<<"a">>, <<"B">>, <<"A", "b">>, <<"b", "b">>, <<"b", "A", "a">>}
KeywordLists == SeqsUpTo(Keywords, MaxKeywords)

InitValidate ==
    /\ es_client = FALSE
    /\ store = {}
    /\ index_calls = <<>>
    /\ flush_calls = [k \in Keys |-> 0]
    /\ handlers = [k \in Keys |-> Unbound]
    /\ events = [k \in Keys |-> <<>>]
    /\ raised = "none"
    /\ last_call = "none"
    /\ now = 0
    /\ next_uuid = 1
    /\ pc = "validate"
    /\ cur = "none"
    /\ phase = "off"
    /\ iterations = 0
    /\ pending = None
    /\ question = <<>>
    /\ all_steps = <<>>
    /\ stage_out = [k \in {} |-> None]
    /\ invocations = <<>>
    /\ pq_outcome = [kind |-> "none"]
    /\ response = None
    /\ calls = 0
    /\ other = IdleRequest
    /\ switches = 0
    /\ health = None
    /\ recoveries = 0
    /\ \E text \in Texts, expected \in KeywordLists :
          validation = [py |-> "call", fn |-> "none", text |-> text,
                        expected |-> expected, result |-> None]

Validate(fn, result) ==
    /\ pc = "validate" /\ validation.fn = "none"
    /\ validation' = [validation EXCEPT !.fn = fn, !.result = result]
    /\ UNCHANGED <<es_client, recoveries, store, index_calls, flush_calls, handlers, events,
                   raised, last_call, now, next_uuid, executor, request, calls,
                   other, switches, health>>

ValidateSql ==
    Validate("validate_sql_keywords",
             validate_sql_keywords(validation.text, validation.expected))

ValidateAnswer ==
    Validate("validate_answer_keywords",
             validate_answer_keywords(validation.text, validation.expected))

SpecValidate == InitValidate /\ [][ValidateSql \/ ValidateAnswer]_vars

-----------------------------------------------------------------------------
(* Vocabulary of the properties *)

SingleRun == invocations # <<>> /\ invocations[1].stage = "agent"
MultiRun == invocations # <<>> /\ invocations[1].stage = "SQL Agent"
Stages == {"sql", "analytics", "reporting"}

\* the es_client.index calls handler k made
CallsBy(k) == {i \in 1..Len(index_calls) : index_calls[i].by = k}

\* the event a recorded step stands for
StepEvent(step) ==
    IF step.type = "action"
    THEN [type |-> "action", tool |-> step.action.tool,
          tool_input |-> step.action.tool_input]
    ELSE [type |-> "observation", observation |-> step.observation]

RECURSIVE StepEvents(_)
StepEvents(steps) ==
    IF steps = <<>> THEN <<>>
    ELSE <<StepEvent(Head(steps))>> \o StepEvents(Tail(steps))

\* the events of the stages that returned, in pipeline order
EventsOfCompletedStages ==
    (IF "sql" \in DOMAIN stage_out THEN events["sql"] ELSE <<>>)
    \o (IF "analytics" \in DOMAIN stage_out THEN events["analytics"] ELSE <<>>)
    \o (IF "reporting" \in DOMAIN stage_out THEN events["reporting"] ELSE <<>>)

-----------------------------------------------------------------------------
(* C1: a single-agent run with the store client configured ends, normally  *)
(* or by an error, with exactly one persistence attempt under its run      *)
(* identifier: never zero, never two or more.                              *)
C1_ExactlyOnePersistenceAttempt ==
    (pc = "done" /\ SingleRun /\ es_client) =>
        /\ Cardinality(CallsBy("top")) = 1
        /\ \A i \in CallsBy("top") : index_calls[i].id = handlers["top"].run_id

(* C3: the step sequence of every persisted trace document is, element for *)
(* element and in order, the sequence of action and observation events the *)
(* recorder received for that run.                                         *)
C3_PersistedStepsAreTheEvents ==
    \A i \in 1..Len(index_calls) :
        StepEvents(index_calls[i].document.steps) = events[index_calls[i].by]

(* C4: after a successful process_query the top-level run's steps are the  *)
(* SQL stage's events, then the Analytics stage's, then the Reporting      *)
(* stage's, each in order of occurrence, and the flushed top-level trace   *)
(* already holds that merged sequence.                                     *)
C4_MergedStepsInStageOrder ==
    (pc \in {"pq_done", "done"} /\ MultiRun /\ pq_outcome.kind = "return") =>
        /\ StepEvents(handlers["top"].steps) =
               events["sql"] \o events["analytics"] \o events["reporting"]
        /\ \A i \in CallsBy("top") :
               StepEvents(index_calls[i].document.steps) =
                   events["sql"] \o events["analytics"] \o events["reporting"]

(* C6: when a stage fails, every step captured by the stages that ran      *)
(* before it is present in the persisted top-level error trace.            *)
C6_ErrorTraceKeepsEarlierSteps ==
    (pc \in {"pq_done", "done"} /\ MultiRun /\ pq_outcome.kind = "raise") =>
        \A i \in CallsBy("top") :
            StepEvents(index_calls[i].document.steps) = EventsOfCompletedStages

-----------------------------------------------------------------------------
\* the stage handlers constructed so far
Bound(k) == handlers[k] # Unbound

\* the output stage k's executor returned, None while it has not returned
Returned(k) ==
    IF cur = k /\ phase = "returned" THEN pending
    ELSE IF k \in DOMAIN stage_out THEN stage_out[k] ELSE None

\* process_query has returned or raised
PqOver == pc \in {"pq_done", "done"} /\ MultiRun

(* C2: every invocation of process_query, whether it returns or a stage    *)
(* throws, enters the final flush of the top-level handler exactly once,   *)
(* at its end: with the store configured that is exactly one write attempt *)
(* of the top-level trace under the top-level run identifier, carrying the *)
(* final answer (non-empty on the success path, empty otherwise), and the  *)
(* store then holds at most one top-level document.                        *)
C2_OneFinalFlushPerInvocation ==
    /\ (MultiRun /\ ~PqOver) => (flush_calls["top"] = 0 /\ CallsBy("top") = {})
    /\ PqOver =>
         /\ flush_calls["top"] = 1
         /\ Cardinality(CallsBy("top")) = IF es_client THEN 1 ELSE 0
         /\ \A i \in CallsBy("top") :
               /\ index_calls[i].entry = "_log_trace"
               /\ index_calls[i].id = handlers["top"].run_id
               /\ index_calls[i].document.final_answer = handlers["top"].final_answer
               /\ index_calls[i].document.final_answer =
                      IF pq_outcome.kind = "return" THEN stage_out["reporting"]
                      ELSE Str(<<>>)
               /\ Cardinality({e \in store : e.id = handlers["top"].run_id}) =
                      IF index_calls[i].ok THEN 1 ELSE 0

C2_Witness ==
    /\ PqOver /\ es_client /\ pq_outcome.kind = "raise"
    /\ Cardinality(CallsBy("top")) = 1
    /\ \E e \in store : e.id = handlers["top"].run_id

(* C5: when a stage of process_query throws, no later stage is invoked,    *)
(* the top-level final answer is set to empty, the top-level trace is      *)
(* flushed with status error, and process_query raises that exception, the *)
(* flush being done by the time the exception is raised.                   *)
C5_StageFailure ==
    /\ [][(pc \in {"pq_sql", "pq_analytics", "pq_reporting"} /\ phase = "raised") =>
             /\ pc' = "pq_done"
             /\ invocations' = invocations
             /\ pq_outcome' = [kind |-> "raise", error |-> pending]
             /\ handlers'["top"].final_answer = Str(<<>>)
             /\ flush_calls["top"] = 0 /\ flush_calls'["top"] = 1
             /\ es_client =>
                   /\ Len(index_calls') = Len(index_calls) + 1
                   /\ index_calls'[Len(index_calls')].by = "top"
                   /\ index_calls'[Len(index_calls')].document.status = "error"
                   /\ index_calls'[Len(index_calls')].document.final_answer = Str(<<>>)
         ]_vars
    /\ [][pq_outcome.kind = "raise" => invocations' = invocations]_vars

C5_Witness ==
    /\ pc = "pq_done" /\ pq_outcome.kind = "raise" /\ Len(invocations) = 2
    /\ \E i \in CallsBy("top") :
          index_calls[i].ok /\ index_calls[i].document.status = "error"
    /\ \E e \in store : e.id = handlers["top"].run_id /\ e.source.status = "error"

StageFailed(k) == Bound(k) /\ handlers[k].trace_data.error # Absent

-----------------------------------------------------------------------------
\* the payload an entry point owes its caller, from what the agents did alone
ExpectedResponse ==
    IF SingleRun
    THEN IF pending.py = "str"
         THEN [answer |-> pending, run_id |-> handlers["top"].run_id, error |-> None]
         ELSE [answer |-> Str(<<>>), run_id |-> handlers["top"].run_id,
               error |-> Str(<<"An error occurred: ">> \o pending.msg)]
    ELSE IF DOMAIN stage_out = Stages
         THEN [question |-> question,
               sql_findings |-> stage_out["sql"],
               analytics_insights |-> stage_out["analytics"],
               final_report |-> stage_out["reporting"],
               agent_flow |-> <<"SQL Agent", "Analytics Agent", "Reporting Agent">>,
               run_id |-> handlers["top"].run_id,
               error |-> None]
         ELSE [question |-> question,
               sql_findings |-> Str(<<>>),
               analytics_insights |-> Str(<<>>),
               final_report |-> Str(<<>>),
               agent_flow |-> <<>>,
               run_id |-> handlers["top"].run_id,
               error |-> Str(<<"Multi-agent processing failed: ">> \o pending.msg)]

\* this step made an es_client.index call that the store refused
WriteFailed ==
    /\ Len(index_calls') > Len(index_calls)
    /\ ~index_calls'[Len(index_calls')].ok

(* C8: a write the store refuses, in _log_to_elasticsearch or _log_trace,  *)
(* is caught: the flush raises nothing, makes no second attempt, and       *)
(* leaves the run in memory as it was (identifier, steps, final answer,    *)
(* status); the entry point then returns the payload it returns when the   *)
(* write succeeds.                                                         *)
C8_WriteFailureIsContained ==
    /\ [][WriteFailed =>
             LET w == index_calls'[Len(index_calls')]
             IN /\ raised' = "none"
                /\ Len(index_calls') = Len(index_calls) + 1
                /\ store' = store
                /\ handlers'[w.by].run_id = handlers[w.by].run_id
                /\ handlers'[w.by].trace_data = handlers[w.by].trace_data
                /\ w.entry = "_log_trace" =>
                      /\ w.document.steps = handlers'[w.by].steps
                      /\ w.document.final_answer = handlers'[w.by].final_answer
                /\ w.entry = "_log_to_elasticsearch" =>
                      w.document = handlers'[w.by].trace_data
                /\ last_call' \in {"_log_trace", "_log_to_elasticsearch"} =>
                      handlers' = handlers
                /\ pq_outcome'.kind = "raise" => pq_outcome'.error \in Errors
         ]_vars
    /\ [](pc = "done" => response = ExpectedResponse)

C8_Witness ==
    /\ pc = "done" /\ response.error = None
    /\ \E i \in CallsBy("top") : ~index_calls[i].ok
    /\ store = {}

(* C9: with no store client configured no write is attempted, no entry     *)
(* point fails because of the recorder, and each entry point returns the   *)
(* payload the agents' behaviour alone determines, the one it returns with *)
(* the store enabled.                                                      *)
C9_DisabledStoreIsInvisible ==
    /\ ~es_client => (index_calls = <<>> /\ store = {})
    /\ pq_outcome.kind = "raise" => pq_outcome.error \in Errors
    /\ pc = "done" =>
          /\ response = ExpectedResponse
          /\ response.run_id = handlers["top"].run_id

C9_Witness ==
    /\ ~es_client /\ pc = "done" /\ MultiRun
    /\ response.error = None
    /\ flush_calls["top"] = 1 /\ index_calls = <<>>

(* C10: after any sequence of flushes, incremental or final, the store     *)
(* holds at most one document per run identifier, and a flush that         *)
(* succeeds leaves exactly the document it wrote for that run identifier.  *)
C10_OneDocumentPerRunId ==
    /\ [](\A e1, e2 \in store : e1.source.run_id = e2.source.run_id => e1 = e2)
    /\ [][(Len(index_calls') > Len(index_calls) /\ index_calls'[Len(index_calls')].ok) =>
             LET w == index_calls'[Len(index_calls')]
             IN {e \in store' : e.source.run_id = w.document.run_id} =
                    {[id |-> w.document.run_id, source |-> w.document]}
         ]_vars

C10_Witness ==
    \E i, j \in 1..Len(index_calls) :
        /\ i < j
        /\ index_calls[i].ok /\ index_calls[j].ok
        /\ index_calls[i].id = index_calls[j].id
        /\ index_calls[i].entry = "_log_to_elasticsearch"
        /\ index_calls[j].entry = "_log_trace"
        /\ store = {[id |-> index_calls[j].id, source |-> index_calls[j].document]}

-----------------------------------------------------------------------------
\* the payloads the two entry points return
IsQueryResponse(r) ==
    /\ DOMAIN r = {"answer", "run_id", "error"}
    /\ r.answer.py = "str"
    /\ r.error.py \in {"None", "str"}

IsMultiAgentResponse(r) ==
    /\ DOMAIN r = {"question", "sql_findings", "analytics_insights",
                   "final_report", "agent_flow", "run_id", "error"}
    /\ r.error.py \in {"None", "str"}

(* C11: both entry points end by returning a structured payload that       *)
(* carries the run identifier of the request's own trace handler, whether  *)
(* the agents succeeded or failed; a handler's run identifier is set at    *)
(* construction and never changes, no two handlers share one, and every    *)
(* write a handler makes is keyed by its own run identifier.               *)
C11_RunIdReturnedAndStable ==
    /\ [](pc = "done" =>
            /\ IF SingleRun THEN IsQueryResponse(response)
                            ELSE IsMultiAgentResponse(response)
            /\ response.run_id = handlers["top"].run_id
            /\ response.run_id = NewHandler(1, 0).run_id)
    /\ [](\A k, l \in Keys :
             (Bound(k) /\ Bound(l) /\ k # l) => handlers[k].run_id # handlers[l].run_id)
    /\ [](\A i \in 1..Len(index_calls) :
             /\ index_calls[i].id = handlers[index_calls[i].by].run_id
             /\ index_calls[i].document.run_id = index_calls[i].id)
    /\ [][\A k \in Keys :
             Bound(k) => /\ Bound(k)'
                         /\ handlers'[k].run_id = handlers[k].run_id
                         /\ handlers'[k].trace_data.run_id = handlers[k].run_id]_vars

C11_Witness ==
    /\ pc = "done" /\ MultiRun
    /\ response.error # None
    /\ Bound("analytics")
    /\ \E e \in store : e.id = response.run_id /\ e.source.status = "error"
    /\ \E e \in store : e.id = handlers["sql"].run_id

-----------------------------------------------------------------------------
\* the run of handler k has made its terminal transition
Terminal(k) == Bound(k) /\ handlers[k].trace_data.status # "started"

\* what of a run must not change once it is terminal
RunOutcome(h) ==
    [status |-> h.trace_data.status,
     final_answer |-> h.final_answer,
     final_output |-> h.trace_data.final_output,
     error |-> h.trace_data.error,
     steps |-> h.steps,
     recorded |-> h.trace_data.steps]

(* C12: a run starts with status started and keeps it while action and     *)
(* observation steps are appended; it makes at most one terminal           *)
(* transition, and once it is terminal no later callback changes its       *)
(* status, final answer, error message or steps.                           *)
C12_OneTerminalTransition ==
    [][\A k \in Keys :
          /\ (~Bound(k) /\ Bound(k)') => handlers'[k].trace_data.status = "started"
          /\ (Bound(k) /\ last_call' \in {"on_agent_action", "on_tool_end"}) =>
                 handlers'[k].trace_data.status = handlers[k].trace_data.status
          /\ Terminal(k) => RunOutcome(handlers'[k]) = RunOutcome(handlers[k])
      ]_vars

-----------------------------------------------------------------------------
\* the run traced by handler k ended normally, with its final answer set
ExitedNormally(k) ==
    IF k = "top"
    THEN \/ pc = "done" /\ response.error = None
         \/ pc = "pq_done" /\ pq_outcome.kind = "return"
         \/ SingleRun /\ phase = "returned"
    ELSE Returned(k) # None

(* C13: the status of a persisted trace tells how the run ended: a trace   *)
(* of a run that exited normally is persisted as completed, never as       *)
(* error; in particular when the multi-agent entry point returns a payload *)
(* with error None, the top-level trace is not persisted as error.         *)
C13_StatusReflectsOutcome ==
    \A i \in 1..Len(index_calls) :
        ExitedNormally(index_calls[i].by) =>
            index_calls[i].document.status = "completed"

-----------------------------------------------------------------------------
\* the names of the stages that returned, in pipeline order
StagesCompleted ==
    (IF "sql" \in DOMAIN stage_out THEN <<"SQL Agent">> ELSE <<>>)
    \o (IF "analytics" \in DOMAIN stage_out THEN <<"Analytics Agent">> ELSE <<>>)
    \o (IF "reporting" \in DOMAIN stage_out THEN <<"Reporting Agent">> ELSE <<>>)

\* the payload fields that a failed process_query leaves empty
FailurePayload(r) ==
    /\ r.question = question
    /\ r.sql_findings = Str(<<>>)
    /\ r.analytics_insights = Str(<<>>)
    /\ r.final_report = Str(<<>>)
    /\ r.error.py = "str" /\ Truthy(r.error)
    /\ r.run_id = handlers["top"].run_id

(* C14 as stated: when a stage raises inside process_query the entry point *)
(* returns a payload with the three stage outputs empty and error set, and *)
(* agent_flow names the stages that ran to completion before the failure.  *)
C14_FlowNamesStagesThatRan ==
    (pc = "done" /\ MultiRun /\ pq_outcome.kind = "raise") =>
        /\ FailurePayload(response)
        /\ response.agent_flow = StagesCompleted

(* C14 amended: when a stage raises inside process_query the entry point   *)
(* does not raise: its next step returns a payload with sql_findings,      *)
(* analytics_insights and final_report empty, whatever the earlier stages  *)
(* returned, error set to the failure's message, and agent_flow empty,     *)
(* whichever stage failed.                                                 *)
C14_StageFailurePayload ==
    /\ []((pc = "done" /\ MultiRun /\ pq_outcome.kind = "raise") =>
             /\ FailurePayload(response)
             /\ response.error = Str(<<"Multi-agent processing failed: ", "boom">>)
             /\ response.agent_flow = <<>>)
    /\ [][(pc = "pq_done" /\ pq_outcome.kind = "raise") => pc' = "done"]_vars

C14_Witness ==
    /\ pc = "done" /\ MultiRun /\ pq_outcome.kind = "raise"
    /\ Len(invocations) = 2
    /\ "sql" \in DOMAIN stage_out /\ Truthy(stage_out["sql"])
    /\ response.sql_findings = Str(<<>>) /\ response.agent_flow = <<>>
    /\ response.error # None

-----------------------------------------------------------------------------
Pipeline == <<"SQL Agent", "Analytics Agent", "Reporting Agent">>

(* C15: process_query invokes the SQL, Analytics and Reporting stages in   *)
(* that order, each at most once and each only after the one before it     *)
(* returned; the Analytics input contains the SQL output, the Reporting    *)
(* input contains the SQL and the Analytics outputs, and a successful      *)
(* process_query returns the three stage outputs with agent_flow naming    *)
(* the three stages in pipeline order.                                     *)
C15_FixedSequentialPipeline ==
    /\ [](MultiRun =>
            /\ Len(invocations) <= 3
            /\ \A i \in 1..Len(invocations) : invocations[i].stage = Pipeline[i]
            /\ Includes(invocations[1].input, question)
            /\ Len(invocations) >= 2 =>
                  /\ "sql" \in DOMAIN stage_out
                  /\ Includes(invocations[2].input, stage_out["sql"].s)
            /\ Len(invocations) >= 3 =>
                  /\ "analytics" \in DOMAIN stage_out
                  /\ Includes(invocations[3].input,
                              <<"Create a business report from: SQL Data: ">>
                              \o stage_out["sql"].s)
                  /\ Includes(invocations[3].input,
                              <<" Analytics: ">> \o stage_out["analytics"].s)
            /\ pq_outcome.kind = "return" =>
                  /\ Len(invocations) = 3
                  /\ pq_outcome.value =
                         [sql_findings |-> stage_out["sql"],
                          analytics_insights |-> stage_out["analytics"],
                          final_report |-> stage_out["reporting"],
                          agent_flow |-> Pipeline])
    /\ [][MultiRun =>
             \/ invocations' = invocations
             \/ /\ Len(invocations') = Len(invocations) + 1
                /\ SubSeq(invocations', 1, Len(invocations)) = invocations
                /\ phase = "returned" /\ pq_outcome.kind = "none"]_vars

C15_Witness ==
    /\ pc = "pq_done" /\ pq_outcome.kind = "return"
    /\ Len(invocations) = 3
    /\ stage_out["sql"] = Str(<<"11 customers">>)
    /\ stage_out["analytics"] = Str(<<"Error", " rate 11">>)
    /\ invocations[3].input = <<"Create a business report from: SQL Data: ",
                                "11 customers", " Analytics: ", "Error", " rate 11">>

-----------------------------------------------------------------------------
\* the run identifiers of the recorders request r constructed
RunIds(r) == {r.handlers[k].run_id : k \in {l \in Keys : r.handlers[l] # Unbound}}

\* the executor objects request r invoked
Executors(r) == {ExecutorOf(r.invocations[i].stage) : i \in 1..Len(r.invocations)}

\* both requests have been received
BothReceived == pc # "idle" /\ other.pc # "idle"

\* document e is the trace of a run of request r, and holds nothing but what
\* that run's own recorder holds and that request's own executor returned
TraceOf(r, e) ==
    \E k \in Keys :
        /\ r.handlers[k] # Unbound
        /\ e.id = r.handlers[k].run_id
        /\ e.source.run_id = r.handlers[k].run_id
        /\ e.source.question = r.handlers[k].original_question
        /\ e.source.final_answer = r.handlers[k].final_answer
        /\ e.source.final_answer = r.pending
        /\ e.source.steps = r.handlers[k].steps
        /\ e.source.start_time = r.handlers[k].start_time

Isolated ==
    \A e \in store :
        /\ TraceOf(Request, e) \/ TraceOf(other, e)
        /\ ~(TraceOf(Request, e) /\ TraceOf(other, e))

(* C16 as stated: each of two concurrent requests constructs fresh         *)
(* recorder and executor instances, shares no object with the other, and   *)
(* every persisted trace holds only its own request's data.                *)
C16_FreshInstancesPerRequest ==
    BothReceived =>
        /\ RunIds(Request) \cap RunIds(other) = {}
        /\ Executors(Request) \cap Executors(other) = {}
        /\ Isolated

(* C16 amended: two concurrent requests run on the one executor object     *)
(* built at import, but each constructs its own recorder with a run        *)
(* identifier of its own; a step of one request changes nothing the other  *)
(* request owns and no document written for the other; and under every     *)
(* interleaving each persisted trace is the trace of exactly one request   *)
(* and holds that request's question, steps and final answer only.         *)
C16_TracesAreIsolated ==
    /\ [](BothReceived =>
            /\ RunIds(Request) \cap RunIds(other) = {}
            /\ Executors(Request) = {ExecutorOf("agent")}
            /\ Executors(other) = {ExecutorOf("agent")})
    /\ []Isolated
    /\ [][switches' = switches =>
             /\ other' = other
             /\ \A e \in store : e.id \in RunIds(other) => e \in store'
             /\ \A e \in store' \ store : e.id \in RunIds(Request')]_vars

C16_Witness ==
    /\ pc = "done" /\ other.pc = "done" /\ switches = 2
    /\ \E a, b \in store :
          /\ TraceOf(Request, a) /\ TraceOf(other, b)
          /\ a.source.final_answer # b.source.final_answer
          /\ a.source.start_time.iso < b.source.start_time.iso
          /\ b.source.end_time.iso < a.source.end_time.iso
    /\ Cardinality(store) = 2

-----------------------------------------------------------------------------
(* C17: every persisted trace document carries the question of its request *)
(* and the agent type label of the executor that produced it: single_agent *)
(* for the single-agent executor, Orchestrator for the merged trace of     *)
(* process_query, and for a stage's own trace a label other than those of  *)
(* the single agent and of the orchestrator.                               *)
C17_QuestionAndAgentTypePersisted ==
    \A i \in 1..Len(index_calls) :
        /\ index_calls[i].document.question = question
        /\ index_calls[i].document.agent_type \in
               IF index_calls[i].by = "top"
               THEN IF SingleRun THEN {"single_agent"} ELSE {"Orchestrator"}
               ELSE {"SQL Agent", "Analytics Agent", "Reporting Agent"}

-----------------------------------------------------------------------------
\* the trace-store status the probe reported
Reported == health.payload.services.elasticsearch.status

(* C18: the liveness probe never raises and reports the trace store as     *)
(* exactly one of disabled, healthy, unhealthy: disabled when no client is *)
(* configured (the info probe is then not made), healthy when the client's *)
(* info probe returns, unhealthy when it raises.                           *)
C18_ProbeReportsReachability ==
    health # None =>
        /\ health.raised = "none"
        /\ health.payload.status = "ok"
        /\ Reported \in {"disabled", "healthy", "unhealthy"}
        /\ (Reported = "disabled") = ~es_client
        /\ (Reported = "disabled") = (health.info_call = None)
        /\ (Reported = "healthy") = (es_client /\ health.info_call.py = "dict")
        /\ (Reported = "unhealthy") =
               (es_client /\ health.info_call.py \notin {"None", "dict"})

C18_Witness ==
    /\ health # None /\ Reported = "unhealthy"
    /\ health.payload.services.elasticsearch.info = Str(<<"Connection refused">>)
    /\ \E i \in 1..Len(index_calls) : index_calls[i].ok

-----------------------------------------------------------------------------
\* two characters that differ at most in case
SameLetter(c, d) ==
    \/ c = d
    \/ {c, d} = {"a", "A"}
    \/ {c, d} = {"b", "B"}

\* keyword occurs in text, whatever the case of either
Present(keyword, text) ==
    \E i \in 1..(Len(text) + 1) :
        /\ i + Len(keyword) - 1 <= Len(text)
        /\ \A j \in 1..Len(keyword) : SameLetter(text[i + j - 1], keyword[j])

\* the positions of the expected keywords that are present in the text
Hits == {i \in 1..Len(validation.expected) :
            Present(validation.expected[i], validation.text)}

Validated == validation # None /\ validation.fn # "none"

\* score = n / d
ScoreIs(score, n, d) == score.num * d = n * score.den

(* C19 as stated: for every text and every list of expected keywords the   *)
(* score is 1.0 when every expected keyword is present, whatever its case, *)
(* 0.0 when none is, and found/total otherwise.                            *)
C19_KeywordScore ==
    Validated =>
        LET score == validation.result.score
            total == Len(validation.expected)
        IN /\ Cardinality(Hits) = total => ScoreIs(score, 1, 1)
           /\ Hits = {} => ScoreIs(score, 0, 1)
           /\ (Hits # {} /\ Cardinality(Hits) < total) =>
                  ScoreIs(score, Cardinality(Hits), total)

(* C19 amended: for every text and every non-empty list of expected        *)
(* keywords the score is the number of expected keywords present in the    *)
(* text, whatever their case, divided by the length of the list: 1.0 when  *)
(* all are present, 0.0 when none is; for the empty list the score is 0.   *)
C19_KeywordScoreOfNonEmptyList ==
    Validated =>
        LET score == validation.result.score
            total == Len(validation.expected)
        IN /\ total > 0 =>
                  /\ score.py = "float"
                  /\ score.den = total
                  /\ score.num = Cardinality(Hits)
                  /\ Cardinality(Hits) = total => ScoreIs(score, 1, 1)
                  /\ Hits = {} => ScoreIs(score, 0, 1)
           /\ total = 0 => score = PyInt(0)

C19_Witness ==
    /\ Validated
    /\ validation.fn = "validate_sql_keywords"
    /\ validation.text = <<"a", "B", "a">>
    /\ validation.expected = <<<<"A", "b">>, <<"b", "b">>>>
    /\ validation.result.score = Float(1, 2)

-----------------------------------------------------------------------------
\* a failure was reported to handler k
Failed(k) == Bound(k) /\ handlers[k].trace_data.error # Absent

\* the errors that can have been reported to a handler so far: the one the
\* running executor is ending with, and a parsing failure it recovered from
ReportedErrors ==
    (IF "msg" \in DOMAIN pending THEN {pending} ELSE {})
        \cup (IF recoveries > 0 THEN ParsingErrors ELSE {})

\* document doc records the error message msg
RecordsError(doc, msg) ==
    \/ "error" \in DOMAIN doc /\ doc.error = msg
    \/ doc.final_answer.py = "str" /\ Includes(doc.final_answer.s, msg.s)

(* C20: a failure reported through on_llm_error, on_tool_error or          *)
(* on_chain_error leaves the run in status error with the error's message  *)
(* attached; an error message is attached only to a run in status error;   *)
(* and once the request is over, with the store configured and accepting   *)
(* writes, the trace persisted for that run records the message.           *)
C20_ErrorRecordedAndPersisted ==
    \A k \in Keys :
        Failed(k) =>
            /\ handlers[k].trace_data.status = "error"
            /\ \E error \in ReportedErrors : handlers[k].trace_data.error = ErrStr(error)
            /\ (pc = "done" /\ es_client /\ \A i \in 1..Len(index_calls) : index_calls[i].ok) =>
                   \E e \in store :
                       /\ e.id = handlers[k].run_id
                       /\ e.source.status = "error"
                       /\ RecordsError(e.source, handlers[k].trace_data.error)

-----------------------------------------------------------------------------
(* The guard of on_chain_end.                                              *)

(* The answers a run can end with: what AgentExecutor.invoke returns under *)
(* "output" and on_chain_end can adopt.                                    *)
FinalAnswers == {o \in AgentOutputs : Truthy(o)}

(* The step is an on_chain_end call that reached the trace store.          *)
ChainEndWrote ==
    /\ last_call' = "on_chain_end"
    /\ Len(index_calls') > Len(index_calls)

(* The document carries the outcome of its run: the answer the executor    *)
(* returned, or, for the orchestrator's handler, which process_query ends  *)
(* explicitly in its finally block, the answer process_query assigned.     *)
CarriesFinalOutcome(w) ==
    \/ w.by = "top" /\ MultiRun'
    \/ w.document.final_answer \in FinalAnswers

(* C21: for every callback sequence, a chain-end event that arrives before *)
(* the run's final answer is known writes nothing: every document that an  *)
(* on_chain_end call writes carries the final outcome of its run, never a  *)
(* value an error callback left behind while the run goes on.              *)
C21_ChainEndWritesFinalOutcome ==
    [][ChainEndWrote =>
          CarriesFinalOutcome(index_calls'[Len(index_calls')])]_vars

-----------------------------------------------------------------------------
(* C22: on the single-agent path, whenever the entry point returns a       *)
(* successful response (no error field), the final_answer of the trace     *)
(* persisted under the response's run_id equals the answer returned to the *)
(* caller, whatever callbacks preceded the final chain-end, earlier        *)
(* chain-ends and recovered tool or LLM errors included.                   *)
C22_PersistedAnswerIsReturnedAnswer ==
    (SingleRun /\ pc = "done" /\ response.error = None) =>
        \A e \in store :
            e.id = response.run_id => e.source.final_answer = response.answer

-----------------------------------------------------------------------------
(* The durations of flushed traces.                                        *)

\* the document carries a duration: duration_seconds (the final entry point,
\* _log_trace) or duration_ms (the incremental one, _log_to_elasticsearch)
HasDuration(doc) ==
    IF "duration_seconds" \in DOMAIN doc THEN TRUE ELSE doc.duration_ms # Absent

\* end minus start of the same document, in seconds
EndMinusStart(doc) == FromIsoFormat(doc.end_time).t - FromIsoFormat(doc.start_time).t

(* C23: whenever a trace is flushed, by the incremental or by the final    *)
(* entry point, the flushed document carries a duration computed at flush  *)
(* time: it equals the document's end_time minus its start_time and, the   *)
(* clock never going back, it is not negative.                             *)
C23_DurationIsEndMinusStart ==
    \A i \in 1..Len(index_calls) :
        LET doc == index_calls[i].document
        IN /\ HasDuration(doc)
           /\ "duration_seconds" \in DOMAIN doc =>
                 /\ doc.duration_seconds = EndMinusStart(doc)
                 /\ doc.duration_seconds >= 0

-----------------------------------------------------------------------------
(* The iteration ceilings.                                                 *)

\* the ceilings as configured: SQL 15, above Analytics 5 and Reporting 5;
\* the single agent 5
CeilingsAsStated ==
    /\ MaxIterations("sql") = 15
    /\ MaxIterations("analytics") = 5 /\ MaxIterations("reporting") = 5
    /\ MaxIterations("sql") > MaxIterations("analytics")
    /\ MaxIterations("sql") > MaxIterations("reporting")
    /\ MaxIterations("top") = 5

\* no loop runs past its ceiling
WithinCeiling == iterations <= MaxIterations(cur)

\* the entry point has answered
Answered == pc = "done"

\* the request's terminal flush was attempted
TerminalFlush == flush_calls["top"] >= 1

(* C24: each executor's loop is bounded by its ceiling (SQL 15, Analytics  *)
(* 5, Reporting 5, single agent 5); a run that reaches the ceiling ends    *)
(* with a best-effort answer, not with an error; and, every LLM and tool   *)
(* call returning, every single-agent run and every process_query          *)
(* invocation terminates and reaches its terminal flush.                   *)
C24_CeilingEndsRunWithAnswerAndFlush ==
    /\ [](CeilingsAsStated /\ WithinCeiling)
    /\ [](Answered => response.error = None)
    /\ <>(Answered /\ TerminalFlush)

-----------------------------------------------------------------------------
\* the entries of seq at the positions in S, in their order in seq
Picked(seq, S) ==
    LET pick[i \in 0..Len(seq)] ==
            IF i = 0 THEN <<>>
            ELSE IF i \in S THEN Append(pick[i - 1], seq[i]) ELSE pick[i - 1]
    IN pick[Len(seq)]

(* C25: for every text and every list of expected keywords, the found and  *)
(* missing lists of validate_sql_keywords and validate_answer_keywords     *)
(* partition the expected list: every expected entry is in exactly one of  *)
(* them, found holding the entries present in the text and missing the     *)
(* others, each in its original relative order, so that len(found) +       *)
(* len(missing) = len(expected); and the score lies between 0 and 1.       *)
C25_FoundAndMissingPartitionExpected ==
    Validated =>
        LET expected == validation.expected
            result == validation.result
            all == 1..Len(expected)
        IN /\ result.found = Picked(expected, Hits)
           /\ result.missing = Picked(expected, all \ Hits)
           /\ Len(result.found) + Len(result.missing) = Len(expected)
           /\ result.score.den > 0
           /\ 0 <= result.score.num /\ result.score.num <= result.score.den

C25_Witness ==
    /\ Validated
    /\ validation.fn = "validate_answer_keywords"
    /\ validation.text = <<"a", "B", "a">>
    /\ validation.expected = <<<<"b", "b">>, <<"A", "b">>>>
    /\ validation.result.found = <<<<"A", "b">>>>
    /\ validation.result.missing = <<<<"b", "b">>>>

====
